---- MODULE Spec2Model ----
(***************************************************************************)
(* Model of sat_solver.py: the DPLL search of class SATSolver (solve,      *)
(* dpll, simplify_clauses, find_unit_clause, find_pure_literal,            *)
(* choose_variable) and the verdict printed by main.                       *)
(*                                                                         *)
(* Python objects that are mutated in place are modelled by reference:     *)
(* every assignment dict lives in `heap` and a call frame holds the index  *)
(* of the dict it was given.  Clause lists are never mutated by the code,  *)
(* they are rebuilt; they are modelled by value.                           *)
(***************************************************************************)
EXTENDS Integers, Sequences, FiniteSets, TLC

\* ---------------------------------------------------------------- bounds
NumVars == 2
MaxClauses == 3
MaxClauseLen == 2
SmallMaxClauses == 2
MaxLines == 2
MaxLineLen == 4

Vars == 1..NumVars
Lits == {l \in (0 - NumVars)..NumVars : l # 0}

RECURSIVE SeqsUpTo(_, _)
SeqsUpTo(S, n) ==
    IF n = 0 THEN {<<>>}
    ELSE LET shorter == SeqsUpTo(S, n - 1)
         IN  shorter \cup {Append(s, x) : s \in {t \in shorter : Len(t) = n - 1}, x \in S}

ClauseSet == SeqsUpTo(Lits, MaxClauseLen)
FormulaSet == SeqsUpTo(ClauseSet, MaxClauses)
SmallFormulaSet == SeqsUpTo(ClauseSet, SmallMaxClauses)
\* The tokens input lines are made of, and the lines: a line is the sequence
\* of its whitespace-separated tokens, the blank line the empty sequence.
Tokens == {"p", "px", "cnf", "c", "0", "1", "-1", "x"}
LineSet == SeqsUpTo(Tokens, MaxLineLen)
AssignmentSet == UNION {[D -> BOOLEAN] : D \in SUBSET Vars}

\* ---------------------------------------------------------------- state
VARIABLES
    pc,                \* main: control position
    output,            \* main: what was printed
    self_clauses,      \* SATSolver.clauses
    self_assignments,  \* SATSolver.assignments
    num_vars,          \* SATSolver.num_vars
    heap,              \* the assignment dicts created by the run, by reference
    stack,             \* the active dpll calls, root first
    ret,               \* the value handed back by the call that returned last
    ncalls,            \* how many times dpll has been entered
    sClauses,          \* simplify_clauses harness: the `clauses` argument
    sAssign,           \* simplify_clauses harness: the `assignments` argument
    sIn,               \* simplify_clauses harness: the arguments as passed
    simplified,        \* simplify_clauses: the local list `simplified`
    sIdx,              \* simplify_clauses: position of the outer loop
    sPc,               \* simplify_clauses harness: control position
    sAgain,            \* simplify_clauses applied to its own result
    first,             \* what the first solve() returned, once solve() is called again
    line,              \* parse_dimacs: the line being handled, as its tokens
    nread,             \* parse_dimacs: how many lines have been taken
    pclauses,          \* parse_dimacs: the local list `clauses`
    pnum,              \* parse_dimacs: the local `num_vars`
    pstat,             \* read_dimacs_file / parse_dimacs: control position
    exitStatus         \* main: 1 once sys.exit(1) was called

dpllVars == <<pc, output, self_clauses, self_assignments, num_vars, heap, stack, ret, ncalls>>
simpVars == <<sClauses, sAssign, sIn, simplified, sIdx, sPc, sAgain>>
readVars == <<line, nread, pclauses, pnum, pstat, exitStatus>>
vars == <<pc, output, self_clauses, self_assignments, num_vars, heap, stack, ret, ncalls,
          sClauses, sAssign, sIn, simplified, sIdx, sPc, sAgain,
          first, line, nread, pclauses, pnum, pstat, exitStatus>>

\* ---------------------------------------------------------------- helpers
Abs(x) == IF x < 0 THEN 0 - x ELSE x

EmptyDict == <<>>

\* assignments[var] = value
SetItem(a, var, value) ==
    [v \in DOMAIN a \cup {var} |-> IF v = var THEN value ELSE a[v]]

\* literal is true under the assignment a
LiteralTrue(literal, a) ==
    /\ Abs(literal) \in DOMAIN a
    /\ \/ literal > 0 /\ a[Abs(literal)]
       \/ literal < 0 /\ ~a[Abs(literal)]

\* ------------------------------------------------------- simplify_clauses
\* ScanLiterals with `break` in place of `continue`: the scan of a clause stops
\* at its first falsified literal.
RECURSIVE ScanLiteralsBreak(_, _, _, _)
ScanLiteralsBreak(clause, i, assignments, new_clause) ==
    IF i > Len(clause)
    THEN [satisfied |-> FALSE, new_clause |-> new_clause]
    ELSE LET literal == clause[i]
             var == Abs(literal)
         IN  IF var \in DOMAIN assignments
             THEN IF (literal > 0 /\ assignments[var]) \/ (literal < 0 /\ ~assignments[var])
                  THEN [satisfied |-> TRUE, new_clause |-> new_clause]
                  ELSE [satisfied |-> FALSE, new_clause |-> new_clause]
             ELSE ScanLiteralsBreak(clause, i + 1, assignments, Append(new_clause, literal))

\* ScanLiterals that deletes a falsified literal from the list it iterates
\* over: the literal after a deleted one is stepped over and stays.
RECURSIVE ScanLiteralsSkip(_, _, _, _)
ScanLiteralsSkip(clause, i, assignments, new_clause) ==
    IF i > Len(clause)
    THEN [satisfied |-> FALSE, new_clause |-> new_clause]
    ELSE LET literal == clause[i]
             var == Abs(literal)
         IN  IF var \in DOMAIN assignments
             THEN IF (literal > 0 /\ assignments[var]) \/ (literal < 0 /\ ~assignments[var])
                  THEN [satisfied |-> TRUE, new_clause |-> new_clause]
                  ELSE IF i + 1 <= Len(clause)
                       THEN ScanLiteralsSkip(clause, i + 2, assignments,
                                             Append(new_clause, clause[i + 1]))
                       ELSE [satisfied |-> FALSE, new_clause |-> new_clause]
             ELSE ScanLiteralsSkip(clause, i + 1, assignments, Append(new_clause, literal))

\* ScanLiterals that keeps a falsified literal in new_clause.
RECURSIVE ScanLiteralsKeep(_, _, _, _)
ScanLiteralsKeep(clause, i, assignments, new_clause) ==
    IF i > Len(clause)
    THEN [satisfied |-> FALSE, new_clause |-> new_clause]
    ELSE LET literal == clause[i]
             var == Abs(literal)
         IN  IF var \in DOMAIN assignments
             THEN IF (literal > 0 /\ assignments[var]) \/ (literal < 0 /\ ~assignments[var])
                  THEN [satisfied |-> TRUE, new_clause |-> new_clause]
                  ELSE ScanLiteralsKeep(clause, i + 1, assignments, Append(new_clause, literal))
             ELSE ScanLiteralsKeep(clause, i + 1, assignments, Append(new_clause, literal))

\* The inner loop over one clause.  Returns the flag `satisfied` and the
\* list `new_clause` as they stand when the loop is left.
RECURSIVE ScanLiterals(_, _, _, _)
ScanLiterals(clause, i, assignments, new_clause) ==
    IF i > Len(clause)
    THEN [satisfied |-> FALSE, new_clause |-> new_clause]
    ELSE LET literal == clause[i]
             var == Abs(literal)
         IN  IF var \in DOMAIN assignments
             THEN IF (literal > 0 /\ assignments[var]) \/ (literal < 0 /\ ~assignments[var])
                  THEN [satisfied |-> TRUE, new_clause |-> new_clause]
                  ELSE ScanLiterals(clause, i + 1, assignments, new_clause)
             ELSE ScanLiterals(clause, i + 1, assignments, Append(new_clause, literal))

\* SimplifyOne that appends new_clause only when it is non-empty.
SimplifyOneNonEmpty(acc, clause, assignments) ==
    LET r == ScanLiterals(clause, 1, assignments, <<>>)
    IN  IF ~r.satisfied /\ r.new_clause # <<>> THEN Append(acc, r.new_clause) ELSE acc

\* One pass of the outer loop body: `simplified` after the clause was handled.
SimplifyOne(acc, clause, assignments) ==
    LET r == ScanLiterals(clause, 1, assignments, <<>>)
    IN  IF ~r.satisfied THEN Append(acc, r.new_clause) ELSE acc

RECURSIVE SimplifyFrom(_, _, _, _)
SimplifyFrom(clauses, i, assignments, acc) ==
    IF i > Len(clauses) THEN acc
    ELSE SimplifyFrom(clauses, i + 1, assignments, SimplifyOne(acc, clauses[i], assignments))

simplify_clauses(clauses, assignments) == SimplifyFrom(clauses, 1, assignments, <<>>)

\* ------------------------------------------------------- find_unit_clause
\* UnitFrom that keeps scanning: the last clause of one literal wins.
RECURSIVE UnitFromLast(_, _)
UnitFromLast(clauses, i) ==
    IF i > Len(clauses) THEN [found |-> FALSE, var |-> 0, value |-> FALSE]
    ELSE IF UnitFromLast(clauses, i + 1).found THEN UnitFromLast(clauses, i + 1)
    ELSE IF Len(clauses[i]) = 1
         THEN [found |-> TRUE, var |-> Abs(clauses[i][1]), value |-> clauses[i][1] > 0]
         ELSE [found |-> FALSE, var |-> 0, value |-> FALSE]

\* for clause in clauses: if len(clause) == 1: return (var, value)
RECURSIVE UnitFrom(_, _)
UnitFrom(clauses, i) ==
    IF i > Len(clauses) THEN [found |-> FALSE, var |-> 0, value |-> FALSE]
    ELSE IF Len(clauses[i]) = 1
         THEN [found |-> TRUE, var |-> Abs(clauses[i][1]), value |-> clauses[i][1] > 0]
         ELSE UnitFrom(clauses, i + 1)

find_unit_clause(clauses) == UnitFrom(clauses, 1)

\* ------------------------------------------------------ find_pure_literal
\* All literals of the clause list in scan order (clause by clause).
RECURSIVE Flatten(_)
Flatten(clauses) ==
    IF clauses = <<>> THEN <<>> ELSE Head(clauses) \o Flatten(Tail(clauses))

\* The keys of a dict filled in scan order: each variable once, in the order
\* of its first occurrence (dicts iterate in insertion order).
RECURSIVE KeyOrder(_, _)
KeyOrder(lits, seen) ==
    IF lits = <<>> THEN <<>>
    ELSE LET v == Abs(Head(lits))
         IN  IF v \in seen THEN KeyOrder(Tail(lits), seen)
             ELSE <<v>> \o KeyOrder(Tail(lits), seen \cup {v})

\* counts[var]: the set of polarities var occurs with
Polarities(lits, var) == {lits[i] > 0 : i \in {j \in DOMAIN lits : Abs(lits[j]) = var}}

RECURSIVE PureFrom(_, _, _)
PureFrom(keys, i, lits) ==
    IF i > Len(keys) THEN [found |-> FALSE, var |-> 0, value |-> FALSE]
    ELSE IF Cardinality(Polarities(lits, keys[i])) = 1
         THEN [found |-> TRUE, var |-> keys[i],
               value |-> CHOOSE b \in Polarities(lits, keys[i]) : TRUE]
         ELSE PureFrom(keys, i + 1, lits)

find_pure_literal(clauses) ==
    LET lits == Flatten(clauses)
    IN  PureFrom(KeyOrder(lits, {}), 1, lits)

\* -------------------------------------------------------- choose_variable
\* The literals that are counted: those whose variable is not in assignments.
Counted(clauses, assignments) ==
    SelectSeq(Flatten(clauses), LAMBDA l : Abs(l) \notin DOMAIN assignments)

Frequency(lits, var) == Cardinality({j \in DOMAIN lits : Abs(lits[j]) = var})

\* MaxKey that also replaces the maximum on an equal count: the last key with
\* the highest count wins.
RECURSIVE MaxKeyLast(_, _, _, _)
MaxKeyLast(keys, i, lits, best) ==
    IF i > Len(keys) THEN best
    ELSE IF Frequency(lits, keys[i]) >= Frequency(lits, best)
         THEN MaxKeyLast(keys, i + 1, lits, keys[i])
         ELSE MaxKeyLast(keys, i + 1, lits, best)

\* max(frequency, key=frequency.get): the first key, in insertion order, whose
\* count no other key exceeds.
RECURSIVE MaxKey(_, _, _, _)
MaxKey(keys, i, lits, best) ==
    IF i > Len(keys) THEN best
    ELSE IF Frequency(lits, keys[i]) > Frequency(lits, best)
         THEN MaxKey(keys, i + 1, lits, keys[i])
         ELSE MaxKey(keys, i + 1, lits, best)

choose_variable(clauses, assignments) ==
    LET lits == Counted(clauses, assignments)
        keys == KeyOrder(lits, {})
    IN  IF keys # <<>> THEN MaxKey(keys, 2, lits, keys[1]) ELSE 1

\* ------------------------------------------------------------------- dpll
\* Outcome without the conflict test.
OutcomeNoConflict(clauses) ==
    IF clauses = <<>> THEN "success"
    ELSE IF find_unit_clause(clauses).found THEN "unit"
    ELSE IF find_pure_literal(clauses).found THEN "pure"
    ELSE "branch"

\* Outcome with the unit-clause test moved in front of the conflict test.
OutcomeUnitFirst(clauses) ==
    IF clauses = <<>> THEN "success"
    ELSE IF find_unit_clause(clauses).found THEN "unit"
    ELSE IF \E i \in DOMAIN clauses : Len(clauses[i]) = 0 THEN "conflict"
    ELSE IF find_pure_literal(clauses).found THEN "pure"
    ELSE "branch"

\* Which of the five exits of dpll a reduced clause list takes, in the order
\* the code tests them.
Outcome(clauses) ==
    IF clauses = <<>> THEN "success"
    ELSE IF \E i \in DOMAIN clauses : Len(clauses[i]) = 0 THEN "conflict"
    ELSE IF find_unit_clause(clauses).found THEN "unit"
    ELSE IF find_pure_literal(clauses).found THEN "pure"
    ELSE "branch"

\* A loop that tries False before True.
BranchOrderFalseFirst == <<FALSE, TRUE>>

\* A loop that tries True only.
BranchOrderTrueOnly == <<TRUE>>

\* for value in [True, False]
BranchOrder == <<TRUE, FALSE>>

\* CopyAndSet without the copy: the branch writes into the dict of its caller.
AliasAndSet(h, ref, var, value) ==
    [heap |-> [h EXCEPT ![ref] = SetItem(h[ref], var, value)], ref |-> ref]

\* new_assignments = assignments.copy(); new_assignments[var] = value
\* A new dict is allocated; the dict at ref is left as it is.
CopyAndSet(h, ref, var, value) ==
    [heap |-> Append(h, SetItem(h[ref], var, value)), ref |-> Len(h) + 1]

\* SetInPlace that forgets the store.
SetInPlaceForgotten(h, ref, var, value) ==
    [heap |-> h, ref |-> ref]

\* SetInPlace on a copy: extended = assignments.copy(); extended[var] = value
SetInPlaceCopy(h, ref, var, value) ==
    [heap |-> Append(h, SetItem(h[ref], var, value)), ref |-> Len(h) + 1]

\* assignments[var] = value, on the dict the call was given
SetInPlace(h, ref, var, value) ==
    [heap |-> [h EXCEPT ![ref] = SetItem(h[ref], var, value)], ref |-> ref]

Pending == [kind |-> "pending", ref |-> 0]
None == [kind |-> "none", ref |-> 0]
Dict(ref) == [kind |-> "dict", ref |-> ref]

\* NewFrame for a call made on self.clauses whatever list the caller holds.
NewFrameOriginal(clauses, ref, h) ==
    [args |-> self_clauses, clauses |-> <<>>, asg |-> ref, entry |-> h[ref],
     pc |-> "start", var |-> 0, vi |-> 0, atBranch |-> <<>>]

\* A call of dpll(clauses, assignments) that has not run its first line yet.
\* `entry` records what the dict held when the call was made.
NewFrame(clauses, ref, h) ==
    [args |-> clauses, clauses |-> <<>>, asg |-> ref, entry |-> h[ref],
     pc |-> "start", var |-> 0, vi |-> 0, atBranch |-> <<>>]

Top == stack[Len(stack)]
Pop == SubSeq(stack, 1, Len(stack) - 1)
SetTop(f) == [stack EXCEPT ![Len(stack)] = f]

\* solve() has been called / has returned
started == pc \in {"solving", "reported"}
done == started /\ stack = <<>>

\* solver = SATSolver(clauses, num_vars), on a clause list of the set S
ConstructFrom(S) ==
    /\ pc = "main"
    /\ self_clauses' \in S
    /\ self_assignments' = EmptyDict
    /\ num_vars' = NumVars
    /\ pc' = "constructed"
    /\ UNCHANGED <<output, heap, stack, ret, ncalls>>
    /\ UNCHANGED <<simpVars, readVars, first>>

\* solver = SATSolver(clauses, num_vars), on whatever the reader returned
Construct == ConstructFrom(FormulaSet)

\* the same on the shorter clause lists
ConstructSmall == ConstructFrom(SmallFormulaSet)

\* solve(): dpll(self.clauses, self.assignments.copy())
Solve ==
    /\ pc = "constructed"
    /\ pc' = "solving"
    /\ heap' = <<self_assignments>>
    /\ stack' = <<NewFrame(self_clauses, 1, <<self_assignments>>)>>
    /\ ncalls' = 1
    /\ ret' = Pending
    /\ UNCHANGED <<output, self_clauses, self_assignments, num_vars>>
    /\ UNCHANGED <<simpVars, readVars, first>>

\* Simplify that stores the reduced list in the solver:
\* self.clauses = self.simplify_clauses(clauses, assignments)
SimplifyStoring ==
    /\ stack # <<>>
    /\ Top.pc = "start"
    /\ stack' = SetTop([Top EXCEPT !.clauses = simplify_clauses(Top.args, heap[Top.asg]),
                                   !.pc = "simplified"])
    /\ self_clauses' = simplify_clauses(Top.args, heap[Top.asg])
    /\ UNCHANGED <<pc, output, self_assignments, num_vars, heap, ret, ncalls>>
    /\ UNCHANGED <<simpVars, readVars, first>>

\* clauses = self.simplify_clauses(clauses, assignments)
Simplify ==
    /\ stack # <<>>
    /\ Top.pc = "start"
    /\ stack' = SetTop([Top EXCEPT !.clauses = simplify_clauses(Top.args, heap[Top.asg]),
                                   !.pc = "simplified"])
    /\ UNCHANGED <<pc, output, self_clauses, self_assignments, num_vars, heap, ret, ncalls>>
    /\ UNCHANGED <<simpVars, readVars, first>>

\* if not clauses: return assignments
Success ==
    /\ stack # <<>>
    /\ Top.pc = "simplified"
    /\ Outcome(Top.clauses) = "success"
    /\ ret' = Dict(Top.asg)
    /\ stack' = Pop
    /\ UNCHANGED <<pc, output, self_clauses, self_assignments, num_vars, heap, ncalls>>
    /\ UNCHANGED <<simpVars, readVars, first>>

\* if any(len(clause) == 0 ...): return None
Conflict ==
    /\ stack # <<>>
    /\ Top.pc = "simplified"
    /\ Outcome(Top.clauses) = "conflict"
    /\ ret' = None
    /\ stack' = Pop
    /\ UNCHANGED <<pc, output, self_clauses, self_assignments, num_vars, heap, ncalls>>
    /\ UNCHANGED <<simpVars, readVars, first>>

\* unit propagation: assignments[var] = value; return self.dpll(clauses, assignments)
UnitPropagate ==
    /\ stack # <<>>
    /\ Top.pc = "simplified"
    /\ Outcome(Top.clauses) = "unit"
    /\ LET unit == find_unit_clause(Top.clauses)
           upd == SetInPlace(heap, Top.asg, unit.var, unit.value)
       IN  /\ heap' = upd.heap
           /\ stack' = Append(SetTop([Top EXCEPT !.pc = "unit", !.var = unit.var]),
                              NewFrame(Top.clauses, upd.ref, upd.heap))
    /\ ncalls' = ncalls + 1
    /\ UNCHANGED <<pc, output, self_clauses, self_assignments, num_vars, ret>>
    /\ UNCHANGED <<simpVars, readVars, first>>

\* pure literal elimination: assignments[var] = value; return self.dpll(clauses, assignments)
PureLiteral ==
    /\ stack # <<>>
    /\ Top.pc = "simplified"
    /\ Outcome(Top.clauses) = "pure"
    /\ LET pure == find_pure_literal(Top.clauses)
           upd == SetInPlace(heap, Top.asg, pure.var, pure.value)
       IN  /\ heap' = upd.heap
           /\ stack' = Append(SetTop([Top EXCEPT !.pc = "pure", !.var = pure.var]),
                              NewFrame(Top.clauses, upd.ref, upd.heap))
    /\ ncalls' = ncalls + 1
    /\ UNCHANGED <<pc, output, self_clauses, self_assignments, num_vars, ret>>
    /\ UNCHANGED <<simpVars, readVars, first>>

\* return of the call made by a propagation step: its result is returned as is
PropagateReturn ==
    /\ stack # <<>>
    /\ Top.pc \in {"unit", "pure"}
    /\ ret # Pending
    /\ stack' = Pop
    /\ UNCHANGED <<pc, output, self_clauses, self_assignments, num_vars, heap, ret, ncalls>>
    /\ UNCHANGED <<simpVars, readVars, first>>

\* var = self.choose_variable(clauses, assignments), then the first pass of the
\* loop: copy, set, recurse
Branch ==
    /\ stack # <<>>
    /\ Top.pc = "simplified"
    /\ Outcome(Top.clauses) = "branch"
    /\ LET var == choose_variable(Top.clauses, heap[Top.asg])
           upd == CopyAndSet(heap, Top.asg, var, BranchOrder[1])
       IN  /\ heap' = upd.heap
           /\ stack' = Append(SetTop([Top EXCEPT !.pc = "loop", !.var = var, !.vi = 1,
                                                 !.atBranch = heap[Top.asg]]),
                              NewFrame(Top.clauses, upd.ref, upd.heap))
    /\ ncalls' = ncalls + 1
    /\ UNCHANGED <<pc, output, self_clauses, self_assignments, num_vars, ret>>
    /\ UNCHANGED <<simpVars, readVars, first>>

\* if result is not None: return result
BranchReturn ==
    /\ stack # <<>>
    /\ Top.pc = "loop"
    /\ ret.kind = "dict"
    /\ stack' = Pop
    /\ UNCHANGED <<pc, output, self_clauses, self_assignments, num_vars, heap, ret, ncalls>>
    /\ UNCHANGED <<simpVars, readVars, first>>

\* result is None and the loop has a next value: copy, set, recurse
BranchNext ==
    /\ stack # <<>>
    /\ Top.pc = "loop"
    /\ ret = None
    /\ Top.vi < Len(BranchOrder)
    /\ LET upd == CopyAndSet(heap, Top.asg, Top.var, BranchOrder[Top.vi + 1])
       IN  /\ heap' = upd.heap
           /\ stack' = Append(SetTop([Top EXCEPT !.vi = Top.vi + 1]),
                              NewFrame(Top.clauses, upd.ref, upd.heap))
    /\ ret' = Pending
    /\ ncalls' = ncalls + 1
    /\ UNCHANGED <<pc, output, self_clauses, self_assignments, num_vars>>
    /\ UNCHANGED <<simpVars, readVars, first>>

\* the loop is exhausted: return None
BranchFail ==
    /\ stack # <<>>
    /\ Top.pc = "loop"
    /\ ret = None
    /\ Top.vi >= Len(BranchOrder)
    /\ stack' = Pop
    /\ UNCHANGED <<pc, output, self_clauses, self_assignments, num_vars, heap, ret, ncalls>>
    /\ UNCHANGED <<simpVars, readVars, first>>

\* ------------------------------------------------------------------- main
\* Verdict with `if not solution`: an empty dict counts as no solution.
VerdictTruthy(solution) ==
    IF solution = None \/ heap[solution.ref] = <<>> THEN "UNSAT" ELSE "SAT"

\* if solution is None: print("UNSAT") else: print("SAT")
Verdict(solution) == IF solution = None THEN "UNSAT" ELSE "SAT"

\* the assignment line: solution.get(var, False) for var in 1..num_vars
AssignmentLine(solution, n) ==
    [var \in 1..n |-> IF var \in DOMAIN solution THEN solution[var] ELSE FALSE]

NoOutput == [verdict |-> "", line |-> <<>>]

\* solution = solver.solve() has returned: print the verdict and, for SAT, the
\* assignment line
Report ==
    /\ pc = "solving"
    /\ stack = <<>>
    /\ output' = [verdict |-> Verdict(ret),
                  line |-> IF Verdict(ret) = "SAT"
                           THEN AssignmentLine(heap[ret.ref], num_vars) ELSE <<>>]
    /\ pc' = "reported"
    /\ UNCHANGED <<self_clauses, self_assignments, num_vars, heap, stack, ret, ncalls>>
    /\ UNCHANGED <<simpVars, readVars, first>>

\* ------------------------------------------------------------ specification
SimpIdle ==
    /\ sClauses = <<>>
    /\ sAssign = <<>>
    /\ sIn = <<>>
    /\ simplified = <<>>
    /\ sIdx = 0
    /\ sPc = "off"
    /\ sAgain = <<>>

\* nothing read yet, solve() not called a second time
ReadIdle ==
    /\ line = <<>>
    /\ nread = 0
    /\ pclauses = <<>>
    /\ pnum = 0
    /\ pstat = "idle"
    /\ exitStatus = 0

NotAgain == [kind |-> "pending", value |-> <<>>]

Init ==
    /\ pc = "main"
    /\ output = NoOutput
    /\ self_clauses = <<>>
    /\ self_assignments = EmptyDict
    /\ num_vars = 0
    /\ heap = <<>>
    /\ stack = <<>>
    /\ ret = Pending
    /\ ncalls = 0
    /\ SimpIdle
    /\ ReadIdle
    /\ first = NotAgain

Run ==
    \/ Solve
    \/ Simplify
    \/ Success
    \/ Conflict
    \/ UnitPropagate
    \/ PureLiteral
    \/ PropagateReturn
    \/ Branch
    \/ BranchReturn
    \/ BranchNext
    \/ BranchFail
    \/ Report

Next == Construct \/ Run

\* The value a call of solve() handed back: None, or the contents of the dict.
ResultValue(r) ==
    IF r.kind = "dict" THEN [kind |-> "dict", value |-> heap[r.ref]]
    ELSE [kind |-> r.kind, value |-> <<>>]

\* solve() is called once more on the same solver object after it returned:
\* dpll(self.clauses, self.assignments.copy())
SolveAgain ==
    /\ pc = "solving"
    /\ stack = <<>>
    /\ first = NotAgain
    /\ first' = ResultValue(ret)
    /\ heap' = Append(heap, self_assignments)
    /\ stack' = <<NewFrame(self_clauses, Len(heap) + 1, Append(heap, self_assignments))>>
    /\ ncalls' = ncalls + 1
    /\ ret' = Pending
    /\ UNCHANGED <<pc, output, self_clauses, self_assignments, num_vars>>
    /\ UNCHANGED <<simpVars, readVars>>

NextTwice == Construct \/ Run \/ SolveAgain

\* a caller that may call solve() a second time
SpecTwice == Init /\ [][NextTwice]_vars

Spec == Init /\ [][Next]_vars

\* The run on the shorter clause lists, with the fairness of a sequential
\* program: a step that can be taken is taken.
NextSmall == ConstructSmall \/ Run

FairSpec == Init /\ [][NextSmall]_vars /\ WF_vars(NextSmall)

\* ------------------------------------------- simplify_clauses, step by step
\* A call simplify_clauses(clauses, assignments) on arbitrary arguments, run
\* one pass of the outer loop at a time.  sClauses and sAssign are the two
\* argument objects; sIn keeps what they held when the call was made.
SimplifyCall ==
    /\ sPc = "ready"
    /\ simplified' = <<>>
    /\ sIdx' = 1
    /\ sPc' = "loop"
    /\ UNCHANGED <<sClauses, sAssign, sIn, sAgain>>
    /\ UNCHANGED <<dpllVars, readVars, first>>

\* SimplifyStep that filters the clause in place: the clause of the input list
\* is overwritten with what is left of it.
SimplifyStepInPlace ==
    /\ sPc = "loop"
    /\ sIdx <= Len(sClauses)
    /\ simplified' = SimplifyOne(simplified, sClauses[sIdx], sAssign)
    /\ sClauses' = [sClauses EXCEPT ![sIdx] = ScanLiterals(sClauses[sIdx], 1, sAssign, <<>>).new_clause]
    /\ sIdx' = sIdx + 1
    /\ UNCHANGED <<sAssign, sIn, sPc, sAgain>>
    /\ UNCHANGED <<dpllVars, readVars, first>>

\* for clause in clauses: ... if not satisfied: simplified.append(new_clause)
SimplifyStep ==
    /\ sPc = "loop"
    /\ sIdx <= Len(sClauses)
    /\ simplified' = SimplifyOne(simplified, sClauses[sIdx], sAssign)
    /\ sIdx' = sIdx + 1
    /\ UNCHANGED <<sClauses, sAssign, sIn, sPc, sAgain>>
    /\ UNCHANGED <<dpllVars, readVars, first>>

\* return simplified
SimplifyReturn ==
    /\ sPc = "loop"
    /\ sIdx > Len(sClauses)
    /\ sPc' = "returned"
    /\ UNCHANGED <<sClauses, sAssign, sIn, simplified, sIdx, sAgain>>
    /\ UNCHANGED <<dpllVars, readVars, first>>

\* simplify_clauses(result, assignments): the result simplified once more
SimplifyAgain ==
    /\ sPc = "returned"
    /\ sAgain' = simplify_clauses(simplified, sAssign)
    /\ sPc' = "again"
    /\ UNCHANGED <<sClauses, sAssign, sIn, simplified, sIdx>>
    /\ UNCHANGED <<dpllVars, readVars, first>>

InitSimplify ==
    /\ pc = "main"
    /\ output = NoOutput
    /\ self_clauses = <<>>
    /\ self_assignments = EmptyDict
    /\ num_vars = 0
    /\ heap = <<>>
    /\ stack = <<>>
    /\ ret = Pending
    /\ ncalls = 0
    /\ sClauses \in SmallFormulaSet
    /\ sAssign \in AssignmentSet
    /\ sIn = [clauses |-> sClauses, assignments |-> sAssign]
    /\ simplified = <<>>
    /\ sIdx = 0
    /\ sPc = "ready"
    /\ sAgain = <<>>
    /\ ReadIdle
    /\ first = NotAgain

NextSimplify ==
    \/ SimplifyCall
    \/ SimplifyStep
    \/ SimplifyReturn
    \/ SimplifyAgain

SpecSimplify == InitSimplify /\ [][NextSimplify]_vars

\* ------------------------------------------------------------- properties
HasEmptyClause(clauses) == \E i \in DOMAIN clauses : Len(clauses[i]) = 0
VarsOf(clauses) == {Abs(Flatten(clauses)[j]) : j \in DOMAIN Flatten(clauses)}
Satisfies(a, clause) == \E i \in DOMAIN clause : LiteralTrue(clause[i], a)
BruteForceSat(clauses) ==
    \E a \in [Vars -> BOOLEAN] : \A i \in DOMAIN clauses : Satisfies(a, clauses[i])
\* b holds every key of a with the value a gives it
Extends(b, a) == DOMAIN a \subseteq DOMAIN b /\ \A v \in DOMAIN a : b[v] = a[v]

\* C1 Soundness: when solve() returns an assignment, every clause of the
\* original formula has a literal whose variable is in the returned mapping
\* with the polarity of that literal.
Soundness ==
    (done /\ ret.kind = "dict") =>
        \A i \in DOMAIN self_clauses : Satisfies(heap[ret.ref], self_clauses[i])

\* a returned assignment that took a failed branch and a propagation to find
SoundnessWitness ==
    /\ done
    /\ ret.kind = "dict"
    /\ Len(self_clauses) = MaxClauses
    /\ ncalls >= 4

\* C2 Completeness: solve() returns an assignment exactly when brute-force
\* enumeration of the total assignments finds one satisfying every clause.
Completeness ==
    done => ((ret.kind = "dict") <=> BruteForceSat(self_clauses))

\* a satisfiable formula whose true branch failed and whose false branch succeeded
CompletenessWitness ==
    /\ done
    /\ ret.kind = "dict"
    /\ Len(heap) >= 3
    /\ BruteForceSat(self_clauses)

\* C3 Termination: every run ends; each nested call was entered with strictly
\* more assigned variables than its parent, and the nesting depth below the
\* root never exceeds the number of distinct variables of the formula.
StrictGrowth ==
    \A i \in 2..Len(stack) :
        Cardinality(DOMAIN stack[i].entry) > Cardinality(DOMAIN stack[i - 1].entry)
DepthBounded == Len(stack) - 1 <= Cardinality(VarsOf(self_clauses))
Termination == <>done /\ [](StrictGrowth /\ DepthBounded)

\* the depth bound is met: as many nested calls as the formula has variables
TerminationWitness ==
    /\ Len(stack) - 1 = Cardinality(VarsOf(self_clauses))
    /\ Len(stack) >= 3

\* C4 Empty clause: a formula containing an empty clause is reported UNSAT by
\* the root call with no variable assigned and no recursive call; any call
\* whose reduced formula contains an empty clause returns UNSAT with no child
\* call, unit clauses and pure literals notwithstanding.
EmptyClauseRoot ==
    (done /\ HasEmptyClause(self_clauses)) =>
        /\ ret = None
        /\ ncalls = 1
        /\ heap = <<EmptyDict>>
EmptyClauseStep ==
    (stack # <<>> /\ Top.pc = "simplified" /\ HasEmptyClause(Top.clauses)) =>
        /\ stack' = Pop
        /\ ret' = None
        /\ ncalls' = ncalls
        /\ heap' = heap
EmptyClauseUnsat == []EmptyClauseRoot /\ [][EmptyClauseStep]_vars

\* an empty clause next to a unit clause, answered UNSAT
EmptyClauseWitness ==
    /\ done
    /\ HasEmptyClause(self_clauses)
    /\ find_unit_clause(self_clauses).found
    /\ ret = None

\* C5 Empty formula: a formula with zero clauses is reported SAT with the
\* empty assignment, every variable printed false, and no recursive call.
EmptyFormulaSat ==
    (done /\ self_clauses = <<>>) =>
        /\ ret.kind = "dict"
        /\ heap[ret.ref] = EmptyDict
        /\ ncalls = 1
        /\ pc = "reported" =>
               /\ output.verdict = "SAT"
               /\ output.line = [v \in 1..num_vars |-> FALSE]

EmptyFormulaWitness == pc = "reported" /\ self_clauses = <<>> /\ output.verdict = "SAT"

\* C6 Reference reduction: the result of simplify holds, in the original
\* order, exactly the clauses none of whose literals is true under the
\* assignment, each as the sub-sequence of its literals whose variable is
\* unassigned.
Unassigned(clause, a) == SelectSeq(clause, LAMBDA l : Abs(l) \notin DOMAIN a)
RECURSIVE Reduce(_, _)
Reduce(clauses, a) ==
    IF clauses = <<>> THEN <<>>
    ELSE IF Satisfies(a, Head(clauses)) THEN Reduce(Tail(clauses), a)
         ELSE <<Unassigned(Head(clauses), a)>> \o Reduce(Tail(clauses), a)
SimplifyIsReference ==
    sPc \in {"returned", "again"} => simplified = Reduce(sIn.clauses, sIn.assignments)

\* a call that dropped a clause and shortened another
SimplifyWitness ==
    /\ sPc = "returned"
    /\ Len(sIn.clauses) = SmallMaxClauses
    /\ Len(simplified) = 1
    /\ \E i \in DOMAIN sIn.clauses :
          /\ ~Satisfies(sIn.assignments, sIn.clauses[i])
          /\ Len(simplified[1]) = 1
          /\ Len(sIn.clauses[i]) = 2

\* C7 No side effects: while simplify runs and after it has returned, the
\* clause list, every clause in it and the assignment hold what they held
\* when the call was made, and the result is the one these inputs determine.
SimplifyPure ==
    /\ sPc # "off" => (sClauses = sIn.clauses /\ sAssign = sIn.assignments)
    /\ sPc \in {"returned", "again"} =>
           simplified = simplify_clauses(sIn.clauses, sIn.assignments)

\* a call that has returned after removing a falsified literal
SimplifyPureWitness ==
    /\ sPc = "returned"
    /\ simplified # <<>>
    /\ \E i \in DOMAIN sClauses :
          /\ ~Satisfies(sAssign, sClauses[i])
          /\ Unassigned(sClauses[i], sAssign) # sClauses[i]

\* C8 Idempotence: simplify(simplify(F, A), A) = simplify(F, A).
SimplifyIdempotent == sPc = "again" => sAgain = simplified

\* a second pass over a result that differs from the input formula
SimplifyIdempotentWitness ==
    /\ sPc = "again"
    /\ simplified # <<>>
    /\ simplified # sIn.clauses
    /\ \E i \in DOMAIN simplified : simplified[i] # <<>>

\* C9 No leakage between siblings: once the true branch has failed, the false
\* branch is entered with the assignment the branching call held when it
\* branched plus (chosen variable = false), and the branching call's own
\* assignment still is what it was when it branched.
NoLeak ==
    \A i \in DOMAIN stack :
        stack[i].pc = "loop" =>
            /\ heap[stack[i].asg] = stack[i].atBranch
            /\ stack[i].var \notin DOMAIN stack[i].atBranch
            /\ (stack[i].vi = 2 /\ i < Len(stack)) =>
                   stack[i + 1].entry = SetItem(stack[i].atBranch, stack[i].var, FALSE)

\* the false branch is running and the failed true branch had assigned a
\* further variable in its own dict
NoLeakWitness ==
    \E i \in DOMAIN stack :
        /\ stack[i].pc = "loop"
        /\ stack[i].vi = 2
        /\ i < Len(stack)
        /\ \E r \in DOMAIN heap :
              /\ stack[i].var \in DOMAIN heap[r]
              /\ heap[r][stack[i].var]
              /\ Cardinality(DOMAIN heap[r]) > Cardinality(DOMAIN stack[i].atBranch) + 1

\* C10 Monotonic growth: each nested call is entered with the assignment its
\* parent was entered with plus exactly one variable the parent did not have;
\* along the stack no assigned variable is removed or changes its value.
MonotonicGrowth ==
    /\ \A i \in 2..Len(stack) :
          /\ Extends(stack[i].entry, stack[i - 1].entry)
          /\ Cardinality(DOMAIN stack[i].entry \ DOMAIN stack[i - 1].entry) = 1
    /\ \A i \in DOMAIN stack : Extends(heap[stack[i].asg], stack[i].entry)

\* two nested calls below the root, the inner one made by a propagation step
MonotonicGrowthWitness ==
    /\ Len(stack) >= 3
    /\ stack[2].pc \in {"unit", "pure"}
    /\ stack[1].pc = "loop"

\* ------------------------------------------------------------ parse_dimacs
\* first character of a token
FirstChar(tok) ==
    CASE tok \in {"p", "px"} -> "p"
      [] tok \in {"c", "cnf"} -> "c"
      [] tok = "-1" -> "-"
      [] OTHER -> tok

\* line.startswith(ch), on a stripped line
StartsWith(ln, ch) == ln # <<>> /\ FirstChar(ln[1]) = ch

\* int(tok) succeeds / its value
IsInt(tok) == tok \in {"0", "1", "-1"}
IntOf(tok) == CASE tok = "0" -> 0 [] tok = "1" -> 1 [] tok = "-1" -> 0 - 1

\* the problem-line test without the test of the format tag
BadProblemLineCount(parts) == Len(parts) # 4

\* if len(parts) != 4 or parts[1] != 'cnf': raise ValueError
BadProblemLine(parts) == Len(parts) # 4 \/ parts[2] # "cnf"

\* The body of the loop of parse_dimacs on one line: the locals clauses and
\* num_vars afterwards, and whether an exception left the function.
ParseLine(ln, clauses, nv) ==
    IF ln = <<>> \/ StartsWith(ln, "c")
    THEN [raised |-> FALSE, clauses |-> clauses, num_vars |-> nv]
    ELSE IF StartsWith(ln, "p")
    THEN IF BadProblemLine(ln) \/ ~IsInt(ln[3])
         THEN [raised |-> TRUE, clauses |-> clauses, num_vars |-> nv]
         ELSE [raised |-> FALSE, clauses |-> clauses, num_vars |-> IntOf(ln[3])]
    ELSE IF \E i \in DOMAIN ln : ~IsInt(ln[i])
         THEN [raised |-> TRUE, clauses |-> clauses, num_vars |-> nv]
         ELSE LET literals == [i \in DOMAIN ln |-> IntOf(ln[i])]
              IN  IF literals[Len(literals)] # 0
                  THEN [raised |-> TRUE, clauses |-> clauses, num_vars |-> nv]
                  ELSE [raised |-> FALSE,
                        clauses |-> Append(clauses, SubSeq(literals, 1, Len(literals) - 1)),
                        num_vars |-> nv]

\* read_dimacs_file: open() and read() succeed
ReadOpens ==
    /\ pc = "main"
    /\ pstat = "idle"
    /\ pstat' = "parsing"
    /\ UNCHANGED <<line, nread, pclauses, pnum, exitStatus>>
    /\ UNCHANGED <<dpllVars, simpVars, first>>

\* read_dimacs_file: open() or read() raises
ReadFails ==
    /\ pc = "main"
    /\ pstat = "idle"
    /\ pstat' = "ioerror"
    /\ UNCHANGED <<line, nread, pclauses, pnum, exitStatus>>
    /\ UNCHANGED <<dpllVars, simpVars, first>>

\* for line in dimacs.splitlines(): line = line.strip()
TakeLine ==
    /\ pstat = "parsing"
    /\ nread < MaxLines
    /\ line' \in LineSet
    /\ nread' = nread + 1
    /\ pstat' = "line"
    /\ UNCHANGED <<pclauses, pnum, exitStatus>>
    /\ UNCHANGED <<dpllVars, simpVars, first>>

\* the body of the loop on the line taken
HandleLine ==
    /\ pstat = "line"
    /\ LET r == ParseLine(line, pclauses, pnum)
       IN  /\ pstat' = IF r.raised THEN "error" ELSE "parsing"
           /\ pclauses' = r.clauses
           /\ pnum' = r.num_vars
    /\ line' = <<>>
    /\ UNCHANGED <<nread, exitStatus>>
    /\ UNCHANGED <<dpllVars, simpVars, first>>

\* no line is left: return clauses, num_vars
EndOfFile ==
    /\ pstat = "parsing"
    /\ pstat' = "ok"
    /\ UNCHANGED <<line, nread, pclauses, pnum, exitStatus>>
    /\ UNCHANGED <<dpllVars, simpVars, first>>

\* except Exception as e: print(...); sys.exit(1)
ExitOnError ==
    /\ pc = "main"
    /\ pstat \in {"error", "ioerror"}
    /\ pc' = "exited"
    /\ exitStatus' = 1
    /\ UNCHANGED <<line, nread, pclauses, pnum, pstat>>
    /\ UNCHANGED <<output, self_clauses, self_assignments, num_vars, heap, stack, ret, ncalls>>
    /\ UNCHANGED <<simpVars, first>>

\* solver = SATSolver(clauses, num_vars), on what read_dimacs_file returned
ConstructParsed ==
    /\ pc = "main"
    /\ pstat = "ok"
    /\ self_clauses' = pclauses
    /\ self_assignments' = EmptyDict
    /\ num_vars' = pnum
    /\ pc' = "constructed"
    /\ UNCHANGED <<output, heap, stack, ret, ncalls>>
    /\ UNCHANGED <<simpVars, readVars, first>>

NextRead ==
    \/ ReadOpens
    \/ ReadFails
    \/ TakeLine
    \/ HandleLine
    \/ EndOfFile
    \/ ExitOnError
    \/ ConstructParsed
    \/ Solve

\* main from the reading of the file to the call of solve()
SpecRead == Init /\ [][NextRead]_vars

\* C11 Read-only input: from construction on no step changes the solver's
\* clause list or its stored assignment, the stored assignment stays empty,
\* and a second solve() on the same object returns what the first returned.
ReadOnlyStep ==
    pc \in {"constructed", "solving", "reported"} =>
        /\ self_clauses' = self_clauses
        /\ self_assignments' = self_assignments
SecondSame ==
    /\ started => self_assignments = EmptyDict
    /\ (done /\ first # NotAgain) => ResultValue(ret) = first
ReadOnlyInput == []SecondSame /\ [][ReadOnlyStep]_vars

\* a second solve() that returned after propagation and a failed branch
ReadOnlyWitness ==
    /\ done
    /\ first.kind = "dict"
    /\ first.value # <<>>
    /\ ncalls >= 8
    /\ Len(self_clauses) = MaxClauses

\* C12 Format errors: a problem line with a wrong token count or a wrong
\* format tag, and a clause line that does not end in 0, make the reader
\* raise; after a parse error or a file-read error the entry point exits with
\* status 1 and the solver is neither constructed nor run.
ClauseLine(ln) == ln # <<>> /\ ~StartsWith(ln, "c") /\ ~StartsWith(ln, "p")
FormatErrorStep ==
    pstat = "line" =>
        /\ (StartsWith(line, "p") /\ (Len(line) # 4 \/ line[2] # "cnf")) => pstat' = "error"
        /\ (ClauseLine(line) /\ line[Len(line)] # "0") => pstat' = "error"
ErrorExitStep ==
    (pc = "main" /\ pstat \in {"error", "ioerror"}) => (pc' = "exited" /\ exitStatus' = 1)
ErrorNeverRuns ==
    pstat \in {"error", "ioerror"} =>
        /\ pc \in {"main", "exited"}
        /\ ncalls = 0
        /\ self_clauses = <<>>
FormatErrors == []ErrorNeverRuns /\ [][FormatErrorStep /\ ErrorExitStep]_vars

\* the second line of a file was malformed and main has exited with status 1
FormatErrorsWitness ==
    /\ pc = "exited"
    /\ pstat = "error"
    /\ exitStatus = 1
    /\ nread = MaxLines
    /\ pclauses # <<>>

\* C13 No literal 0: no clause handed to the solver contains the literal 0.
NoZeroLiteral ==
    pc \in {"constructed", "solving"} =>
        \A i \in DOMAIN self_clauses : \A j \in DOMAIN self_clauses[i] : self_clauses[i][j] # 0

\* C14 Formula argument.  As stated: every call of one run receives the
\* original formula.
OriginalFormulaArg == \A i \in DOMAIN stack : stack[i].args = self_clauses

\* C14 as amended: the root call receives the original formula and every
\* other call receives the reduced clause list its caller computed.
ReducedFormulaArg ==
    /\ stack # <<>> => stack[1].args = self_clauses
    /\ \A i \in 2..Len(stack) : stack[i].args = stack[i - 1].clauses

\* a nested call whose clause list differs from the original formula
ReducedFormulaArgWitness ==
    /\ Len(stack) >= 3
    /\ stack[3].args # self_clauses
    /\ stack[3].args # stack[2].args
    /\ stack[3].pc = "simplified"

\* C15 Equivalence of the two threadings: in every call, simplifying the
\* clause list received under the call's assignment gives what simplifying
\* the original formula gives, and the run returns what a search that passes
\* the original formula to every call returns.
RECURSIVE SearchOriginal(_, _)
SearchOriginal(formula, a) ==
    LET reduced == simplify_clauses(formula, a)
        o == Outcome(reduced)
        unit == find_unit_clause(reduced)
        pure == find_pure_literal(reduced)
        var == choose_variable(reduced, a)
        t == SearchOriginal(formula, SetItem(a, var, TRUE))
    IN  CASE o = "success" -> [kind |-> "dict", value |-> a]
          [] o = "conflict" -> [kind |-> "none", value |-> <<>>]
          [] o = "unit" -> SearchOriginal(formula, SetItem(a, unit.var, unit.value))
          [] o = "pure" -> SearchOriginal(formula, SetItem(a, pure.var, pure.value))
          [] OTHER -> IF t.kind = "dict" THEN t
                      ELSE SearchOriginal(formula, SetItem(a, var, FALSE))
SameReduction ==
    /\ \A i \in DOMAIN stack :
          /\ stack[i].pc = "start" =>
                 simplify_clauses(stack[i].args, heap[stack[i].asg])
                     = simplify_clauses(self_clauses, heap[stack[i].asg])
          /\ stack[i].pc = "simplified" =>
                 stack[i].clauses = simplify_clauses(self_clauses, heap[stack[i].asg])
    /\ done => ResultValue(ret) = SearchOriginal(self_clauses, EmptyDict)

\* a nested call that was handed a shortened list and has reduced it further
SameReductionWitness ==
    /\ Len(stack) >= 2
    /\ Top.pc = "simplified"
    /\ Top.args # self_clauses
    /\ Top.clauses # Top.args
    /\ Top.clauses # <<>>

\* C16 Ownership of the assignment.  As stated: no step changes a dict that
\* exists, and a call returns with the dict it was given holding what it held
\* on entry.
OwnCopy ==
    [][/\ \A r \in DOMAIN heap : r \in DOMAIN heap' => heap'[r] = heap[r]
       /\ (stack # <<>> /\ Len(stack') < Len(stack)) => heap[Top.asg] = Top.entry]_vars

\* the caller's frame and the frame of the call it has just made
Caller == stack'[Len(stack)]
Callee == stack'[Len(stack')]
\* the dict at ref after the step is the dict at src before it, with var added
AddsVar(ref, src, var) ==
    /\ var \notin DOMAIN heap[src]
    /\ DOMAIN heap'[ref] = DOMAIN heap[src] \cup {var}
    /\ Extends(heap'[ref], heap[src])

\* C16 as amended: a propagation step stores the forced value in the dict the
\* call was given and hands that same dict to its one child, so a call returns
\* with its dict holding the entry contents and possibly more; only the
\* children of a branching call get a new dict, which leaves every existing
\* dict, and so the dict of the branching call, as it was.
InPlacePropagation ==
    [][/\ (stack # <<>> /\ Len(stack') < Len(stack)) =>
              /\ Extends(heap[Top.asg], Top.entry)
              /\ Top.pc = "loop" => heap[Top.asg] = Top.atBranch
              /\ Top.pc \in {"unit", "pure"} =>
                     /\ heap[Top.asg] # Top.entry
                     /\ Top.var \in DOMAIN heap[Top.asg]
       /\ (stack # <<>> /\ Len(stack') > Len(stack)) =>
              IF Caller.pc \in {"unit", "pure"}
              THEN /\ Callee.asg = Caller.asg
                   /\ Len(heap') = Len(heap)
                   /\ AddsVar(Caller.asg, Caller.asg, Caller.var)
                   /\ \A r \in DOMAIN heap : r # Caller.asg => heap'[r] = heap[r]
              ELSE /\ Callee.asg \notin DOMAIN heap
                   /\ AddsVar(Callee.asg, Caller.asg, Caller.var)
                   /\ \A r \in DOMAIN heap : heap'[r] = heap[r]
       /\ self_assignments' = self_assignments]_vars

\* below a branch, a propagating call whose child has returned: its dict has
\* grown since entry, the dict of the branching call has not
InPlacePropagationWitness ==
    /\ Len(stack) >= 2
    /\ Top.pc \in {"unit", "pure"}
    /\ ret.kind = "dict"
    /\ heap[Top.asg] # Top.entry
    /\ stack[Len(stack) - 1].pc = "loop"
    /\ heap[stack[Len(stack) - 1].asg] = stack[Len(stack) - 1].atBranch
    /\ stack[Len(stack) - 1].asg # Top.asg

\* C17 Branching order: the first child of a branching call has the chosen
\* variable true and the second has it false; the second is started only from
\* a first child that returned None, a child that returned a dict ends the
\* call with that dict, and the call returns None exactly when its second
\* child returned None.
BranchingOrder ==
    [][/\ (stack # <<>> /\ Top.pc = "simplified" /\ Len(stack') > Len(stack)
             /\ Caller.pc = "loop") =>
              /\ Caller.vi = 1
              /\ Callee.entry[Caller.var] = TRUE
       /\ (stack # <<>> /\ Top.pc = "loop") =>
              /\ ret # Pending
              /\ ret.kind = "dict" => stack' = Pop /\ ret' = ret
              /\ Len(stack') > Len(stack) =>
                     /\ ret = None
                     /\ Top.vi = 1
                     /\ Caller.vi = 2
                     /\ Callee.entry[Caller.var] = FALSE
                     /\ Callee.pc = "start"
              /\ Len(stack') < Len(stack) =>
                     /\ ret' = ret
                     /\ ret = None => Top.vi = 2
                     /\ ret.kind = "dict" => heap[ret.ref][Top.var] = (Top.vi = 1)]_vars

\* a branching call whose true child failed and whose false child returned an
\* assignment
BranchingOrderWitness ==
    /\ stack # <<>>
    /\ Top.pc = "loop"
    /\ Top.vi = 2
    /\ ret.kind = "dict"
    /\ heap[ret.ref][Top.var] = FALSE

\* C18 The fallback of choose_variable is not reached: a call that branches
\* holds a reduced list with a literal of an unassigned variable, and the
\* variable it branches on is unassigned and occurs in that list.
FallbackUnreachable ==
    \A i \in DOMAIN stack :
        /\ (stack[i].pc = "simplified" /\ Outcome(stack[i].clauses) = "branch") =>
               /\ Counted(stack[i].clauses, heap[stack[i].asg]) # <<>>
               /\ choose_variable(stack[i].clauses, heap[stack[i].asg])
                      \notin DOMAIN heap[stack[i].asg]
               /\ choose_variable(stack[i].clauses, heap[stack[i].asg])
                      \in VarsOf(stack[i].clauses)
        /\ stack[i].pc = "loop" =>
               /\ stack[i].var \notin DOMAIN stack[i].atBranch
               /\ stack[i].var \in VarsOf(stack[i].clauses)
               /\ KeyOrder(Counted(stack[i].clauses, stack[i].atBranch), {}) # <<>>

\* a call about to branch on a list of three clauses where variable 1 is not
\* the one chosen
FallbackUnreachableWitness ==
    /\ stack # <<>>
    /\ Top.pc = "loop"
    /\ Len(Top.clauses) = 3
    /\ Top.var # 1

\* C19 Outcomes of a call: a call that has reduced its list takes exactly one
\* exit, in the priority success, conflict, unit, pure, branch; the unit rule
\* uses the first clause of one literal; success and conflict return without a
\* child; a propagating call makes one child and returns its result as it is;
\* a branching call makes one or two children.
HasUnit(clauses) == \E k \in DOMAIN clauses : Len(clauses[k]) = 1
FirstUnit(clauses) ==
    CHOOSE k \in DOMAIN clauses :
        Len(clauses[k]) = 1 /\ \A j \in 1..(k - 1) : Len(clauses[j]) # 1
\* the literals of the list all have the polarity `value` on `var`
IsPure(clauses, var, value) ==
    /\ var \in VarsOf(clauses)
    /\ \A j \in DOMAIN Flatten(clauses) :
           Abs(Flatten(clauses)[j]) = var => (Flatten(clauses)[j] > 0) = value
HasPure(clauses) == \E var \in VarsOf(clauses), value \in BOOLEAN : IsPure(clauses, var, value)
Returns(r) == stack' = Pop /\ ret' = r
Calls(kind) ==
    /\ Len(stack') = Len(stack) + 1
    /\ Caller.pc = kind
    /\ Callee.pc = "start"
    /\ Callee.args = Top.clauses
FiveOutcomes ==
    [][/\ (stack # <<>> /\ Top.pc = "simplified") =>
              IF Top.clauses = <<>> THEN Returns(Dict(Top.asg))
              ELSE IF HasEmptyClause(Top.clauses) THEN Returns(None)
              ELSE IF HasUnit(Top.clauses)
                   THEN /\ Calls("unit")
                        /\ Caller.var = Abs(Top.clauses[FirstUnit(Top.clauses)][1])
                        /\ heap'[Callee.asg][Caller.var]
                               = (Top.clauses[FirstUnit(Top.clauses)][1] > 0)
              ELSE IF HasPure(Top.clauses)
                   THEN /\ Calls("pure")
                        /\ IsPure(Top.clauses, Caller.var, heap'[Callee.asg][Caller.var])
              ELSE /\ Calls("loop")
                   /\ Caller.vi = 1
       /\ (stack # <<>> /\ Top.pc \in {"unit", "pure"}) => ret # Pending /\ Returns(ret)
       /\ (stack # <<>> /\ Top.pc = "loop") =>
              /\ Top.vi \in {1, 2}
              /\ Returns(ret) \/ (Top.vi = 1 /\ Calls("loop") /\ Caller.vi = 2)
       /\ (stack # <<>> /\ Top.pc = "start") =>
              /\ Len(stack') = Len(stack)
              /\ stack'[Len(stack)].pc = "simplified"]_vars

\* a propagating call whose list held two clauses of one literal on different
\* variables, back from its child
FiveOutcomesWitness ==
    /\ stack # <<>>
    /\ Top.pc = "unit"
    /\ ret # Pending
    /\ \E j, k \in DOMAIN Top.clauses :
           /\ j < k
           /\ Len(Top.clauses[j]) = 1
           /\ Len(Top.clauses[k]) = 1
           /\ Abs(Top.clauses[j][1]) # Abs(Top.clauses[k][1])

\* C20 Branch-variable heuristic: the variable a call branches on is
\* unassigned, no unassigned variable has more literal occurrences in the
\* reduced list, and every unassigned variable with as many occurrences first
\* occurs later in the clause-by-clause, literal-by-literal scan.
Occurrences(clauses, var) ==
    Cardinality({j \in DOMAIN Flatten(clauses) : Abs(Flatten(clauses)[j]) = var})
FirstOccurrence(clauses, var) ==
    CHOOSE j \in DOMAIN Flatten(clauses) :
        /\ Abs(Flatten(clauses)[j]) = var
        /\ \A k \in 1..(j - 1) : Abs(Flatten(clauses)[k]) # var
Candidates(clauses, a) == VarsOf(clauses) \ DOMAIN a
StrictlyGreaterWitness ==
    /\ stack # <<>>
    /\ Top.pc = "loop"
    /\ \E w \in Candidates(Top.clauses, Top.atBranch) :
           /\ Occurrences(Top.clauses, w) < Occurrences(Top.clauses, Top.var)
           /\ FirstOccurrence(Top.clauses, w) < FirstOccurrence(Top.clauses, Top.var)

====
